---------------------------- MODULE Spec2Model ----------------------------
(***************************************************************************)
(* GW2Walls: the wallpaper crawlers of dijital20/GW2Walls.                 *)
(*                                                                         *)
(*   GW2Walls2.py        queue + crawler threads + download workers        *)
(*   GW2Walls-Threads.py one download thread per matching link             *)
(*   GW2Walls-Async.py   one asyncio task per matching link                *)
(*   GW2Walls.py         the GW2Walls class: catalog, filter, download     *)
(*                                                                         *)
(* Strings that the code inspects (hrefs, urls, paths) are sequences of    *)
(* one-character strings, so that startswith, split and join are computed. *)
(***************************************************************************)
EXTENDS Integers, Sequences, FiniteSets, TLC

VARIABLES
    \* ---- GW2Walls2.py ----
    site2,          \* the remote site as GW2Walls2 sees it (input)
    threads,        \* values.threads
    mpc,            \* __main__: position of the main thread
    started,        \* number of crawler threads started by get_releases_urls
    cpc,            \* crawler thread -> position in get_release_urls
    cidx,           \* crawler thread -> index of the next link of its page
    queue,          \* Queue(): the items waiting, in order; an item is
                    \* named <<c, i>>: link i of the page of crawler c
                    \* (c = 0: the media page)
    unfinished_tasks, \* Queue.unfinished_tasks
    status,         \* item -> "none" (not put yet) | "queued" | "fetching"
                    \*         | "saved" | "failed"
    wpc,            \* download_image thread -> position
    witem,          \* download_image thread -> the item it holds
    dirs,           \* directories that exist
    files,          \* the files that exist: path -> content
    log,            \* the warnings and errors logged so far
    \* ---- GW2Walls-Threads.py, GW2Walls-Async.py ----
    variant,        \* "Threads" | "Async"
    tpc,            \* get_wall_urls: position of the main thread (coroutine)
    tleft,          \* release links of the index not crawled yet
    tasks,          \* the download_wallpaper threads (tasks) started, in
                    \* order: [pc, kind, name]
    \* ---- GW2Walls.py ----
    siteW,          \* the remote site as the GW2Walls class sees it (input)
    gpc,            \* position in GW2Walls(...), then in download_walls
    walls,          \* self.walls
    rnext,          \* get_release_walls: index of the next release entry
    emitted,        \* the records the last get_specified_release_wall added
    args,           \* the arguments of the call of download_walls
    result,         \* what collect_download_urls did: raised, or the list
    idx,            \* download_walls: index of the current item
    io              \* download_walls: the image urls opened, directories
                    \* created and files opened so far (attempts)

vars2 == <<site2, threads, mpc, started, cpc, cidx, queue, unfinished_tasks,
           status, wpc, witem, dirs, files, log>>

prog2 == <<site2, threads, mpc, started, cpc, cidx, queue, unfinished_tasks,
           status, wpc, witem>>

varsT == <<variant, tpc, tleft, tasks>>

varsW == <<siteW, gpc, walls, rnext, emitted, args, result, idx, io>>

vars == <<vars2, varsT, varsW>>

\* What each program leaves alone: the state of the others.
not2 == <<varsT, varsW>>
notT == <<vars2, varsW>>
notW == <<prog2, varsT>>

-----------------------------------------------------------------------------
(* Bounds of the model.                                                    *)

MaxThreads == 2
MaxReleases == 2
MaxLinks == 1
MaxLinksC == 2
MaxPagesT == 1
MaxListsT == 2
MaxLinksT == 1
MaxReleasesW == 1
MaxListsW == 2
MaxLinksW == 1
ClaimedWorkerCount == 2

-----------------------------------------------------------------------------
(* Strings.                                                                *)

StartsWith(s, p) == Len(s) >= Len(p) /\ SubSeq(s, 1, Len(p)) = p

\* The index of the last "/" of s, 0 when there is none.
LastSlash(s) ==
    LET at == {i \in 1..Len(s) : s[i] = "/"}
    IN  IF at = {} THEN 0 ELSE CHOOSE i \in at : \A j \in at : j <= i

\* os.path.basename, and s.split('/')[-1]
Basename(s) == SubSeq(s, LastSlash(s) + 1, Len(s))

\* os.path.dirname (of a path that is not the root's child)
Dirname(s) == SubSeq(s, 1, LastSlash(s) - 1)

\* os.path.join(a, b) for a relative b
PathJoin(a, b) == a \o <<"/">> \o b

SP == <<" ">>

HTTPS_COLON == <<"h", "t", "t", "p", "s", ":">>

MAIN_SITE_URL ==
    <<"h", "t", "t", "p", "s", ":", "/", "/", "w", "w", "w", ".", "g", "u",
      "i", "l", "d", "w", "a", "r", "s", "2", ".", "c", "o", "m">>

\* The three shapes an href takes on the site.
HrefAbsolute == <<"h", "t", "t", "p", "s", ":", "/", "/", "c", "/", "a">>
HrefProtocolRelative == <<"/", "/", "c", "/", "b">>
HrefSiteRelative == <<"/", "m", "/", "a">>

Hrefs == {HrefAbsolute, HrefProtocolRelative, HrefSiteRelative}

Res1 == <<"1", "9", "2", "0">>
Res2 == <<"1", "2", "8", "0">>

\* Sequences over S of length at most n.
SeqUpTo(S, n) == UNION {[1..k -> S] : k \in 0..n}

-----------------------------------------------------------------------------
(* GW2Walls2.py                                                            *)

\* cleanup_url
cleanup_url(url) ==
    IF StartsWith(url, <<"/", "/">>) THEN HTTPS_COLON \o url
    ELSE IF StartsWith(url, <<"/">>) THEN MAIN_SITE_URL \o url
    ELSE url

\* values.resolution and values.save_path (after fix_save_path: absolute)
resolution == Res1
save_path == <<"/", "w">>

\* The links LINK_PATTERN finds on a page: (href, link text).
Links2 ==
    { [href |-> HrefAbsolute, text |-> Res1],
      [href |-> HrefProtocolRelative, text |-> Res1],
      [href |-> HrefSiteRelative, text |-> Res2] }

\* A release page: the links on it.
Pages2 == [links : SeqUpTo(Links2, MaxLinks)]

\* What urlopen does on a page: succeed or raise.
PageOutcomes == {"ok", "fail"}

\* The (url, path) get_media_urls puts for a link.
MediaItem(l) ==
    LET file_url == cleanup_url(l.href)
    IN  [url |-> file_url,
         path |-> PathJoin(PathJoin(save_path, <<"M">>), Basename(file_url))]

\* The (url, path) get_release_urls puts for a link.
ReleaseItem(e, l) ==
    LET file_url == cleanup_url(l.href)
    IN  [url |-> file_url,
         path |-> PathJoin(save_path,
                    e.release_date \o SP \o e.section_title \o SP
                    \o e.release_name \o SP \o Basename(file_url))]

\* The arguments get_releases_urls passes to the thread of the n-th link.
ReleaseEntry(n) ==
    [section_title |-> <<"S">>, release_name |-> <<"R">>,
     release_date |-> <<"d">>]

\* The names of the links of page c whose text is the resolution, in order.
RECURSIVE MatchingFrom(_, _, _)
MatchingFrom(c, ls, i) ==
    IF i > Len(ls) THEN <<>>
    ELSE IF ls[i].text = resolution
         THEN <<(<<c, i>>)>> \o MatchingFrom(c, ls, i + 1)
         ELSE MatchingFrom(c, ls, i + 1)

\* The links of page c (0: the media page).
LinksOf(c) == IF c = 0 THEN site2.media ELSE site2.pages[c].links

\* Every item the run can put.
Items ==
    UNION {{<<c, i>> : i \in {j \in DOMAIN LinksOf(c) :
                                  LinksOf(c)[j].text = resolution}} :
           c \in 0..Len(site2.pages)}

\* The (url, path) of an item.
ItemOf(k) ==
    IF k[1] = 0 THEN MediaItem(LinksOf(0)[k[2]])
    ELSE ReleaseItem(ReleaseEntry(k[1]), LinksOf(k[1])[k[2]])

Crawlers == 1..MaxReleases

\* The Threads and Async variants, not running.
IdleT ==
    /\ variant = "none"
    /\ tpc = "none"
    /\ tleft = 0
    /\ tasks = <<>>

Init2 ==
    /\ IdleT
    /\ siteW = <<>>
    /\ gpc = "none"
    /\ walls = <<>>
    /\ rnext = 0
    /\ emitted = <<>>
    /\ args = <<>>
    /\ result = <<>>
    /\ idx = 0
    /\ io = {}
    /\ site2 \in [pages : SeqUpTo(Pages2, MaxReleases),
                  media : SeqUpTo(Links2, MaxLinks)]
    /\ threads \in 1..MaxThreads
    /\ mpc = "get_releases_urls"
    /\ started = 0
    /\ cpc = [c \in Crawlers |-> "unstarted"]
    /\ cidx = [c \in Crawlers |-> 1]
    /\ queue = <<>>
    /\ unfinished_tasks = 0
    /\ status = [k \in Items |-> "none"]
    /\ wpc = <<>>
    /\ witem = <<>>
    /\ dirs = {}
    /\ files = [p \in {} |-> <<>>]
    /\ log = {}

Put_Front(q, k) ==
    [queue |-> <<k>> \o q.queue,
     unfinished_tasks |-> q.unfinished_tasks + 1,
     status |-> [q.status EXCEPT ![k] = "queued"]]

\* queue.put(item)
Put(q, k) ==
    [queue |-> Append(q.queue, k),
     unfinished_tasks |-> q.unfinished_tasks + 1,
     status |-> [q.status EXCEPT ![k] = "queued"]]

RECURSIVE PutAll(_, _)
PutAll(q, ks) ==
    IF ks = <<>> THEN q ELSE PutAll(Put(q, Head(ks)), Tail(ks))

TheQueue ==
    [queue |-> queue, unfinished_tasks |-> unfinished_tasks,
     status |-> status]

SetQueue(q) ==
    /\ queue' = q.queue
    /\ unfinished_tasks' = q.unfinished_tasks
    /\ status' = q.status

\* d and the directories above it, up to the root's children.
RECURSIVE Parents(_)
Parents(d) == IF LastSlash(d) <= 1 THEN {d} ELSE {d} \cup Parents(Dirname(d))

WriteFile_KeepFirst(fs, p, c) ==
    [q \in DOMAIN fs \cup {p} |-> IF q \in DOMAIN fs THEN fs[q] ELSE c]

\* The files after path p is written with content c.
WriteFile(fs, p, c) ==
    [q \in DOMAIN fs \cup {p} |-> IF q = p THEN c ELSE fs[q]]

\* ---- __main__ and get_releases_urls ----

\* get_releases_urls: urlopen(release_url); a failure is not caught.
MainOpenReleases ==
    /\ mpc = "get_releases_urls"
    /\ \E r \in PageOutcomes :
          mpc' = IF r = "ok" THEN "start_threads" ELSE "aborted"
    /\ UNCHANGED <<site2, threads, started, cpc, cidx, queue, unfinished_tasks,
                   status, wpc, witem, dirs, files, log, not2>>

\* get_releases_urls: Thread(target=get_release_urls, ...).start(), per link.
MainStartCrawler ==
    /\ mpc = "start_threads"
    /\ started < Len(site2.pages)
    /\ started' = started + 1
    /\ cpc' = [cpc EXCEPT ![started + 1] = "urlopen"]
    /\ UNCHANGED <<site2, threads, mpc, cidx, queue, unfinished_tasks, status,
                   wpc, witem, dirs, files, log, not2>>

\* get_media_urls, called when get_releases_urls has returned.
MainGetMediaUrls ==
    /\ mpc = "start_threads"
    /\ started = Len(site2.pages)
    /\ \E r \in PageOutcomes :
          IF r = "ok"
          THEN /\ SetQueue(PutAll(TheQueue, MatchingFrom(0, site2.media, 1)))
               /\ mpc' = "spawn"
          ELSE /\ mpc' = "aborted"
               /\ UNCHANGED <<queue, unfinished_tasks, status>>
    /\ UNCHANGED <<site2, threads, started, cpc, cidx, wpc, witem, dirs, files,
                   log, not2>>

\* The loop with an off-by-one: one worker too many.
SpawnMore_OffByOne == Len(wpc) <= threads

\* for i in range(values.threads)
SpawnMore == Len(wpc) < threads

\* Thread(target=download_image, args=(queue, )).start()
MainSpawnWorker ==
    /\ mpc = "spawn"
    /\ SpawnMore
    /\ wpc' = Append(wpc, "get")
    /\ witem' = Append(witem, <<>>)
    /\ UNCHANGED <<site2, threads, mpc, started, cpc, cidx, queue,
                   unfinished_tasks, status, dirs, files, log, not2>>

\* queue.join() returns when unfinished_tasks is 0; then 'Done.' is logged.
MainJoin ==
    /\ mpc = "spawn"
    /\ ~SpawnMore
    /\ unfinished_tasks = 0
    /\ mpc' = "done"
    /\ UNCHANGED <<site2, threads, started, cpc, cidx, queue, unfinished_tasks,
                   status, wpc, witem, dirs, files, log, not2>>

\* ---- get_release_urls (one thread per release link) ----

CrawlerOpen_FailureScans(c) ==
    /\ cpc[c] = "urlopen"
    /\ \E r \in PageOutcomes :
          /\ cpc' = [cpc EXCEPT ![c] =
                       IF site2.pages[c].links = <<>> THEN "done" ELSE "scan"]
          /\ log' = IF r = "ok" THEN log
                    ELSE log \cup {<<"error_opening", c>>}
    /\ UNCHANGED <<site2, threads, mpc, started, cidx, queue, unfinished_tasks,
                   status, wpc, witem, dirs, files, not2>>

\* urlopen(url) of the release page; a failure is logged and the thread
\* returns. A page without links ends the thread.
CrawlerOpen(c) ==
    /\ cpc[c] = "urlopen"
    /\ \E r \in PageOutcomes :
          IF r = "ok"
          THEN /\ cpc' = [cpc EXCEPT ![c] =
                            IF site2.pages[c].links = <<>> THEN "done"
                            ELSE "scan"]
               /\ log' = log
          ELSE /\ cpc' = [cpc EXCEPT ![c] = "done"]
               /\ log' = log \cup {<<"error_opening", c>>}
    /\ UNCHANGED <<site2, threads, mpc, started, cidx, queue, unfinished_tasks,
                   status, wpc, witem, dirs, files, not2>>

\* One turn of "for file_url, link_text in links"; the thread ends with the
\* last one.
CrawlerScan(c) ==
    /\ cpc[c] = "scan"
    /\ LET links == site2.pages[c].links
       IN  /\ cidx' = [cidx EXCEPT ![c] = @ + 1]
           /\ cpc' = [cpc EXCEPT ![c] =
                        IF cidx[c] >= Len(links) THEN "done" ELSE "scan"]
           /\ IF links[cidx[c]].text = resolution
              THEN SetQueue(Put(TheQueue, <<c, cidx[c]>>))
              ELSE UNCHANGED <<queue, unfinished_tasks, status>>
    /\ UNCHANGED <<site2, threads, mpc, started, wpc, witem, dirs, files, log,
                   not2>>

\* ---- download_image (one thread per worker) ----

Workers == DOMAIN wpc

\* What urlopen(url) and u.read() do: succeed, raise an OSError (URLError,
\* HTTPError, a socket error) or a ValueError, or raise something else
\* (http.client.HTTPException and its subclasses, such as IncompleteRead).
FetchOutcomes == {"ok", "caught", "other"}

\* What open(save_path, mode='wb') does: succeed or raise an OSError.
OpenOutcomes == {"ok", "caught"}

WorkerCaught_Requeue(w) ==
    /\ status' = [status EXCEPT ![witem[w]] = "queued"]
    /\ log' = log \cup {<<"error_saving", witem[w]>>}
    /\ wpc' = [wpc EXCEPT ![w] = "task_done"]

\* except (ValueError, OSError): the error is logged, then queue.task_done().
WorkerCaught(w) ==
    /\ status' = [status EXCEPT ![witem[w]] = "failed"]
    /\ log' = log \cup {<<"error_saving", witem[w]>>}
    /\ wpc' = [wpc EXCEPT ![w] = "task_done"]

\* An exception no handler of download_image names ends the thread.
WorkerUncaught(w) ==
    /\ wpc' = [wpc EXCEPT ![w] = "dead"]
    /\ UNCHANGED <<status, log>>

\* queue.get(False): the next item, or Empty and the loop ends.
WorkerGet(w) ==
    /\ wpc[w] = "get"
    /\ IF queue = <<>>
       THEN /\ wpc' = [wpc EXCEPT ![w] = "exit"]
            /\ UNCHANGED <<queue, witem, status>>
       ELSE /\ witem' = [witem EXCEPT ![w] = Head(queue)]
            /\ queue' = Tail(queue)
            /\ status' = [status EXCEPT ![Head(queue)] = "fetching"]
            /\ wpc' = [wpc EXCEPT ![w] = "dircheck"]
    /\ UNCHANGED <<site2, threads, mpc, started, cpc, cidx, unfinished_tasks,
                   dirs, files, log, not2>>

\* if not os.path.exists(os.path.dirname(save_path))
WorkerDirCheck(w) ==
    /\ wpc[w] = "dircheck"
    /\ wpc' = [wpc EXCEPT ![w] =
                 IF Dirname(ItemOf(witem[w]).path) \in dirs
                 THEN "urlopen" ELSE "makedirs"]
    /\ UNCHANGED <<site2, threads, mpc, started, cpc, cidx, queue,
                   unfinished_tasks, status, witem, dirs, files, log, not2>>

WorkerMakedirs_ExistsFails(w) ==
    /\ wpc[w] = "makedirs"
    /\ LET d == Dirname(ItemOf(witem[w]).path)
       IN  IF d \in dirs
           THEN /\ log' = log \cup {<<"failed_to_create", witem[w]>>}
                /\ dirs' = dirs
                /\ status' = [status EXCEPT ![witem[w]] = "failed"]
                /\ wpc' = [wpc EXCEPT ![w] = "task_done"]
           ELSE /\ log' = log
                /\ dirs' = dirs \cup Parents(d)
                /\ status' = status
                /\ wpc' = [wpc EXCEPT ![w] = "urlopen"]
    /\ UNCHANGED <<site2, threads, mpc, started, cpc, cidx, queue,
                   unfinished_tasks, witem, files, not2>>

\* os.makedirs(...): FileExistsError when the directory exists by now; the
\* handler (except Exception) logs a warning and the item goes on.
WorkerMakedirs(w) ==
    /\ wpc[w] = "makedirs"
    /\ LET d == Dirname(ItemOf(witem[w]).path)
       IN  IF d \in dirs
           THEN /\ log' = log \cup {<<"failed_to_create", witem[w]>>}
                /\ dirs' = dirs
           ELSE /\ log' = log
                /\ dirs' = dirs \cup Parents(d)
    /\ wpc' = [wpc EXCEPT ![w] = "urlopen"]
    /\ UNCHANGED <<site2, threads, mpc, started, cpc, cidx, queue,
                   unfinished_tasks, status, witem, files, not2>>

\* if os.path.exists(save_path): the overwrite warning
OverwriteWarning(w) ==
    IF ItemOf(witem[w]).path \in DOMAIN files
    THEN {<<"overwriting", witem[w]>>} ELSE {}

\* The overwrite warning, then: with closing(urlopen(url)) as u
WorkerUrlopen(w) ==
    /\ wpc[w] = "urlopen"
    /\ \E r \in FetchOutcomes :
          CASE r = "ok" ->
                 /\ wpc' = [wpc EXCEPT ![w] = "open"]
                 /\ log' = log \cup OverwriteWarning(w)
                 /\ status' = status
            [] r = "caught" ->
                 /\ status' = [status EXCEPT ![witem[w]] = "failed"]
                 /\ log' = log \cup OverwriteWarning(w)
                               \cup {<<"error_saving", witem[w]>>}
                 /\ wpc' = [wpc EXCEPT ![w] = "task_done"]
            [] r = "other" ->
                 /\ wpc' = [wpc EXCEPT ![w] = "dead"]
                 /\ log' = log \cup OverwriteWarning(w)
                 /\ status' = status
    /\ UNCHANGED <<site2, threads, mpc, started, cpc, cidx, queue,
                   unfinished_tasks, witem, dirs, files, not2>>

\* with open(save_path, mode='wb') as f: the file is created or truncated
WorkerOpen(w) ==
    /\ wpc[w] = "open"
    /\ \E r \in OpenOutcomes :
          CASE r = "ok" ->
                 /\ files' = WriteFile(files, ItemOf(witem[w]).path, <<>>)
                 /\ wpc' = [wpc EXCEPT ![w] = "write"]
                 /\ UNCHANGED <<status, log>>
            [] r = "caught" -> WorkerCaught(w) /\ files' = files
    /\ UNCHANGED <<site2, threads, mpc, started, cpc, cidx, queue,
                   unfinished_tasks, witem, dirs, not2>>

\* f.write(u.read())
WorkerWrite(w) ==
    /\ wpc[w] = "write"
    /\ \E r \in FetchOutcomes :
          CASE r = "ok" ->
                 /\ files' = WriteFile(files, ItemOf(witem[w]).path,
                                       ItemOf(witem[w]).url)
                 /\ status' = [status EXCEPT ![witem[w]] = "saved"]
                 /\ log' = log
                 /\ wpc' = [wpc EXCEPT ![w] = "task_done"]
            [] r = "caught" -> WorkerCaught(w) /\ files' = files
            [] r = "other" -> WorkerUncaught(w) /\ files' = files
    /\ UNCHANGED <<site2, threads, mpc, started, cpc, cidx, queue,
                   unfinished_tasks, witem, dirs, not2>>

\* queue.task_done(), and the loop goes on
WorkerTaskDone(w) ==
    /\ wpc[w] = "task_done"
    /\ unfinished_tasks' = unfinished_tasks - 1
    /\ witem' = [witem EXCEPT ![w] = <<>>]
    /\ wpc' = [wpc EXCEPT ![w] = "get"]
    /\ UNCHANGED <<site2, threads, mpc, started, cpc, cidx, queue, status,
                   dirs, files, log, not2>>

Next2 ==
    \/ MainOpenReleases
    \/ MainStartCrawler
    \/ MainGetMediaUrls
    \/ MainSpawnWorker
    \/ MainJoin
    \/ \E c \in Crawlers : CrawlerOpen(c)
    \/ \E c \in Crawlers : CrawlerScan(c)
    \/ \E w \in Workers : WorkerGet(w)
    \/ \E w \in Workers : WorkerDirCheck(w)
    \/ \E w \in Workers : WorkerMakedirs(w)
    \/ \E w \in Workers : WorkerUrlopen(w)
    \/ \E w \in Workers : WorkerOpen(w)
    \/ \E w \in Workers : WorkerWrite(w)
    \/ \E w \in Workers : WorkerTaskDone(w)

\* The whole GW2Walls2 run.
Spec2 == Init2 /\ [][Next2]_vars

\* The run with every thread scheduled: a step that can be taken is taken
\* in the end.
Spec2Fair == Init2 /\ [][Next2]_vars /\ WF_vars(Next2)

\* A run with --threads 0: range(values.threads) is empty, no worker is
\* started and the queue keeps every item the crawlers and get_media_urls
\* put. The pages carry up to MaxLinksC links.
PagesC == [links : SeqUpTo(Links2, MaxLinksC)]

InitC ==
    /\ IdleT
    /\ siteW = <<>>
    /\ gpc = "none"
    /\ walls = <<>>
    /\ rnext = 0
    /\ emitted = <<>>
    /\ args = <<>>
    /\ result = <<>>
    /\ idx = 0
    /\ io = {}
    /\ site2 \in [pages : SeqUpTo(PagesC, MaxReleases),
                  media : SeqUpTo(Links2, MaxLinksC)]
    /\ threads = 0
    /\ mpc = "get_releases_urls"
    /\ started = 0
    /\ cpc = [c \in Crawlers |-> "unstarted"]
    /\ cidx = [c \in Crawlers |-> 1]
    /\ queue = <<>>
    /\ unfinished_tasks = 0
    /\ status = [k \in Items |-> "none"]
    /\ wpc = <<>>
    /\ witem = <<>>
    /\ dirs = {}
    /\ files = <<>>
    /\ log = {}

NextC ==
    \/ MainOpenReleases
    \/ MainStartCrawler
    \/ MainGetMediaUrls
    \/ MainJoin
    \/ \E c \in Crawlers : CrawlerOpen(c)
    \/ \E c \in Crawlers : CrawlerScan(c)

SpecC == InitC /\ [][NextC]_vars

-----------------------------------------------------------------------------
(* GW2Walls-Threads.py and GW2Walls-Async.py                               *)

\* The dimensions asked for, and the texts a size link carries: the
\* dimensions (possibly with white space around, which strip() removes) or
\* another size.
dimensions == Res1
LinkTextsT == {Res1, SP \o Res1, Res2}

\* wall_size_item.text.strip(), for white space at the ends
RECURSIVE Strip(_)
Strip(t) ==
    IF t # <<>> /\ Head(t) = " " THEN Strip(Tail(t))
    ELSE IF t # <<>> /\ t[Len(t)] = " " THEN Strip(SubSeq(t, 1, Len(t) - 1))
    ELSE t

\* A wallpaper list (a ul of a release page, an li of the media page): the
\* texts of its size links. A page: its lists, in document order.
ListsT == SeqUpTo(LinkTextsT, MaxLinksT)
PagesT == SeqUpTo(ListsT, MaxListsT)

\* The threads (tasks) get_release_walls and get_media_walls start for a
\* page: one per link whose stripped text is the dimensions; the name carries
\* wall_number (release) or the image name of the list (media).
RECURSIVE TasksOfList(_, _, _, _)
TasksOfList(kind, page_name, wall_number, texts) ==
    IF texts = <<>> THEN <<>>
    ELSE (IF Strip(Head(texts)) # dimensions THEN <<>>
          ELSE <<[pc |-> "get", kind |-> kind,
                  name |-> <<page_name, wall_number>>]>>)
         \o TasksOfList(kind, page_name, wall_number, Tail(texts))

RECURSIVE TasksOfPage(_, _, _, _)
TasksOfPage(kind, page_name, wall_number, lists) ==
    IF lists = <<>> THEN <<>>
    ELSE TasksOfList(kind, page_name, wall_number + 1, Head(lists))
         \o TasksOfPage(kind, page_name, wall_number + 1, Tail(lists))

\* What get_soup does on a page: return it, or raise (requests.get raises
\* on a transport failure); nothing in these files catches it.
SoupOutcomes == {"ok", "raise"}

\* What a download does at requests.get and at makedirs/open/write.
DownloadOutcomes == {"ok", "raise"}

\* Thread.is_alive(), or not task.done()
Alive(t) == t.pc \in {"get", "write"}

\* A neutral state of GW2Walls2, for the runs of the other programs.
Idle2 ==
    /\ site2 = [pages |-> <<>>, media |-> <<>>]
    /\ threads = 1
    /\ mpc = "none"
    /\ started = 0
    /\ cpc = [c \in Crawlers |-> "unstarted"]
    /\ cidx = [c \in Crawlers |-> 1]
    /\ queue = <<>>
    /\ unfinished_tasks = 0
    /\ status = <<>>
    /\ wpc = <<>>
    /\ witem = <<>>

\* The GW2Walls class, not constructed.
IdleW ==
    /\ siteW = <<>>
    /\ gpc = "none"
    /\ walls = <<>>
    /\ rnext = 0
    /\ emitted = <<>>
    /\ args = <<>>
    /\ result = <<>>
    /\ idx = 0
    /\ io = {}

InitT ==
    /\ Idle2
    /\ IdleW
    /\ dirs = {}
    /\ files = <<>>
    /\ log = {}
    /\ variant \in {"Threads", "Async"}
    /\ tpc = "get_releases"
    /\ tleft = 0
    /\ tasks = <<>>

\* get_releases: get_soup(RELEASES_URL) and the release links of the index
GetReleases ==
    /\ tpc = "get_releases"
    /\ \E r \in SoupOutcomes :
          IF r = "ok"
          THEN \E n \in 0..MaxPagesT :
                  /\ tleft' = n
                  /\ tpc' = "get_release_walls"
          ELSE /\ tpc' = "raised"
               /\ tleft' = tleft
    /\ UNCHANGED <<variant, tasks, notT>>

\* get_release_walls for the next release link: get_soup(release_url), then
\* a thread (task) is started for every matching link of the page
GetReleaseWalls ==
    /\ tpc = "get_release_walls"
    /\ tleft > 0
    /\ \E r \in SoupOutcomes :
          IF r = "ok"
          THEN \E page \in PagesT :
                  /\ tasks' = tasks \o TasksOfPage("release", tleft, 0, page)
                  /\ tleft' = tleft - 1
                  /\ tpc' = tpc
          ELSE /\ tpc' = "raised"
               /\ UNCHANGED <<tleft, tasks>>
    /\ UNCHANGED <<variant, notT>>

\* get_media_walls, once get_releases has returned
GetMediaWalls ==
    /\ tpc = "get_release_walls"
    /\ tleft = 0
    /\ \E r \in SoupOutcomes :
          IF r = "ok"
          THEN \E page \in PagesT :
                  /\ tasks' = tasks \o TasksOfPage("media", 0, 0, page)
                  /\ tpc' = "wait"
          ELSE /\ tpc' = "raised"
               /\ tasks' = tasks
    /\ UNCHANGED <<variant, tleft, notT>>

\* Threads: "while tasks" ends when no thread is alive (at once when there
\* is none). Async: asyncio.wait(tasks) raises ValueError for an empty list
\* and returns when every task is done.
WaitTasks ==
    /\ tpc = "wait"
    /\ \A i \in 1..Len(tasks) : ~Alive(tasks[i])
    /\ tpc' = IF variant = "Async" /\ tasks = <<>> THEN "raised" ELSE "done"
    /\ UNCHANGED <<variant, tleft, tasks, notT>>

\* download_wallpaper: requests.get(url)
DownloadGet(i) ==
    /\ tasks[i].pc = "get"
    /\ \E r \in DownloadOutcomes :
          tasks' = [tasks EXCEPT ![i].pc =
                      IF r = "ok" THEN "write" ELSE "raised"]
    /\ UNCHANGED <<variant, tpc, tleft, notT>>

\* download_wallpaper: os.makedirs(..., exist_ok=True), open, write
DownloadWrite(i) ==
    /\ tasks[i].pc = "write"
    /\ \E r \in DownloadOutcomes :
          tasks' = [tasks EXCEPT ![i].pc =
                      IF r = "ok" THEN "done" ELSE "raised"]
    /\ UNCHANGED <<variant, tpc, tleft, notT>>

NextT ==
    \/ GetReleases
    \/ GetReleaseWalls
    \/ GetMediaWalls
    \/ WaitTasks
    \/ \E i \in DOMAIN tasks : DownloadGet(i)
    \/ \E i \in DOMAIN tasks : DownloadWrite(i)

\* A run of GW2Walls-Threads.py or of GW2Walls-Async.py.
SpecT == InitT /\ [][NextT]_vars

-----------------------------------------------------------------------------
(* GW2Walls.py: the GW2Walls class                                         *)

TITLE_SUFFIX ==
    <<" ", "|", " ", "G", "u", "i", "l", "d", "W", "a", "r", "s", "2", ".", "c", "o", "m">>
CROP_SUFFIX == <<"-", "c", "r", "o", "p", ".", "j", "p", "g">>
DOT_JPG == <<".", "j", "p", "g">>
TypeMedia == <<"m", "e", "d", "i", "a">>
TypeRelease == <<"r", "e", "l", "e", "a", "s", "e">>

\* str.replace(sub, ''): s without the occurrences of sub
RECURSIVE RemoveAll(_, _)
RemoveAll(s, sub) ==
    IF Len(s) < Len(sub) THEN s
    ELSE IF StartsWith(s, sub)
         THEN RemoveAll(SubSeq(s, Len(sub) + 1, Len(s)), sub)
         ELSE <<Head(s)>> \o RemoveAll(Tail(s), sub)

\* str.split(sep) for a one-character sep: the pieces, in order
RECURSIVE Split(_, _)
Split(s, sep) ==
    LET at == {i \in 1..Len(s) : s[i] = sep}
    IN  IF at = {} THEN <<s>>
        ELSE LET i == CHOOSE x \in at : \A y \in at : x <= y
             IN  <<SubSeq(s, 1, i - 1)>>
                 \o Split(SubSeq(s, i + 1, Len(s)), sep)

Digits == {"0", "1", "2", "3", "4", "5", "6", "7", "8", "9"}

Letters ==
    {"a", "b", "c", "d", "e", "f", "g", "h", "i", "j", "k", "l", "m", "n",
     "o", "p", "q", "r", "s", "t", "u", "v", "w", "x", "y", "z",
     "A", "B", "C", "D", "E", "F", "G", "H", "I", "J", "K", "L", "M", "N",
     "O", "P", "Q", "R", "S", "T", "U", "V", "W", "X", "Y", "Z"}

\* valid_chars of __filename
ValidChars == {"-", "_", ".", "(", ")", " "} \cup Letters \cup Digits

\* __filename
filename(in_file) == SelectSeq(in_file, LAMBDA c : c \in ValidChars)

MonthNumber_None(m) == <<>>

\* The month names %B accepts that the model's slugs use, with their number.
MonthNumber(m) ==
    CASE m = <<"a", "u", "g", "u", "s", "t">> -> <<"0", "8">>
      [] m = <<"m", "a", "y">> -> <<"0", "5">>
      [] OTHER -> <<>>

\* %Y: four digits.  %d: one or two digits, 1 to 31 (a leading 0 allowed).
IsYear(t) == Len(t) = 4 /\ \A i \in 1..4 : t[i] \in Digits
IsDay(t) ==
    \/ Len(t) = 1 /\ t[1] \in Digits \ {"0"}
    \/ Len(t) = 2 /\ t[1] = "0" /\ t[2] \in Digits \ {"0"}
    \/ Len(t) = 2 /\ t[1] \in {"1", "2"} /\ t[2] \in Digits
    \/ Len(t) = 2 /\ t[1] = "3" /\ t[2] \in {"0", "1"}
TwoDigits(t) == IF Len(t) = 1 THEN <<"0">> \o t ELSE t

\* __get_release_date: release_url.split('/')[-2] against '%B-%Y', then
\* '%B-%d-%Y'; str() of the date, or '' when neither parses.
get_release_date(release_url) ==
    LET segs == Split(release_url, "/")
        date == IF Len(segs) >= 2 THEN segs[Len(segs) - 1] ELSE <<>>
        toks == Split(date, "-")
    IN  IF Len(toks) = 2 /\ MonthNumber(toks[1]) # <<>> /\ IsYear(toks[2])
        THEN toks[2] \o <<"-">> \o MonthNumber(toks[1]) \o <<"-", "0", "1">>
        ELSE IF /\ Len(toks) = 3
                /\ MonthNumber(toks[1]) # <<>>
                /\ IsDay(toks[2])
                /\ IsYear(toks[3])
        THEN toks[3] \o <<"-">> \o MonthNumber(toks[1]) \o <<"-">>
             \o TwoDigits(toks[2])
        ELSE <<>>

\* get_release_date_from_url of the Threads and Async variants: the same
\* statements, the date object in place of its str().
get_release_date_from_url(release_url) == get_release_date(release_url)

\* if not href.startswith('https:'): href = 'https:{}'.format(href)
FixHref(href) ==
    IF StartsWith(href, HTTPS_COLON) THEN href ELSE HTTPS_COLON \o href

\* The num of a record: '' in a media record, the integer wall_number in a
\* release record, held here as the empty and the one-element tuple.
NoNum == <<>>

\* get_media_walls: the records of one li of class wallpaper
RECURSIVE MediaRecords(_, _)
MediaRecords(wall_name, links) ==
    IF links = <<>> THEN <<>>
    ELSE <<[name |-> wall_name, dim |-> Head(links).text,
            url |-> FixHref(Head(links).href), type |-> TypeMedia,
            date |-> <<>>, num |-> NoNum]>>
         \o MediaRecords(wall_name, Tail(links))

RECURSIVE MediaWalls(_)
MediaWalls(items) ==
    IF items = <<>> THEN <<>>
    ELSE MediaRecords(RemoveAll(Basename(Head(items).src), CROP_SUFFIX),
                      Head(items).links)
         \o MediaWalls(Tail(items))

\* get_specified_release_wall: the records of one ul, numbered wall_number.
\* An href is rewritten in place, so the second keyword finds the hrefs of a
\* list it shares with the first already rewritten.
RECURSIVE ListRecords(_, _, _, _, _)
ListRecords(wall_name, wall_date, wall_number, links, seen) ==
    IF links = <<>> THEN <<>>
    ELSE LET href == IF seen THEN FixHref(Head(links).href)
                     ELSE Head(links).href
         IN  <<[name |-> wall_name, dim |-> Head(links).text,
                url |-> FixHref(href), type |-> TypeRelease,
                date |-> wall_date, num |-> <<wall_number>>]>>
             \o ListRecords(wall_name, wall_date, wall_number, Tail(links),
                            seen)

\* release_soup.find_all('ul', keyword): the lists whose classes hold keyword
FindAll(lists, keyword) == SelectSeq(lists, LAMBDA l : keyword \in l.class)

\* for wall_item in release_soup.find_all('ul', keyword): wall_number += 1 ...
RECURSIVE KeywordRecords(_, _, _, _, _)
KeywordRecords(wall_name, wall_date, wall_number, found, second) ==
    IF found = <<>> THEN <<>>
    ELSE ListRecords(wall_name, wall_date, wall_number + 1,
                     Head(found).links,
                     second /\ "wallpaper" \in Head(found).class)
         \o KeywordRecords(wall_name, wall_date, wall_number + 1,
                           Tail(found), second)

\* get_specified_release_wall: for keyword in ['wallpaper', 'resolutions']
ReleaseWalls(release_url, page) ==
    LET wall_name == filename(RemoveAll(page.title, TITLE_SUFFIX))
        wall_date == get_release_date(release_url)
        first == FindAll(page.lists, "wallpaper")
    IN  KeywordRecords(wall_name, wall_date, 0, first, FALSE)
        \o KeywordRecords(wall_name, wall_date, Len(first),
                          FindAll(page.lists, "resolutions"), TRUE)

\* get_release_walls: release.a['href'], made absolute
ReleaseUrl(href) ==
    IF StartsWith(href, MAIN_SITE_URL) THEN href ELSE MAIN_SITE_URL \o href

\* ---- the inputs ----

LinksW ==
    { [href |-> HrefAbsolute, text |-> Res1],
      [href |-> HrefProtocolRelative, text |-> Res2],
      [href |-> HrefSiteRelative, text |-> Res1] }

SrcA == <<"/", "i", "/", "A", "-", "c", "r", "o", "p", ".", "j", "p", "g">>
TitleA == <<"A", " ", "|", " ", "G", "u", "i", "l", "d", "W", "a", "r", "s", "2", ".", "c", "o", "m">>
TitleB == <<"B", "!", " ", "|", " ", "G", "u", "i", "l", "d", "W", "a", "r", "s", "2", ".", "c", "o", "m">>
ReleaseHrefDated == <<"/", "r", "/", "a", "u", "g", "u", "s", "t", "-", "1", "2", "-", "2", "0", "1", "4", "/">>
ReleaseHrefUndated == <<"/", "r", "/", "n", "o", "t", "-", "a", "-", "d", "a", "t", "e", "/">>

ListClasses ==
    {{"wallpaper"}, {"resolutions"}, {"wallpaper", "resolutions"}, {"nav"}}

\* A title without a letter, a digit or a character of '-_.() ' before
\* the suffix, and a size link without text (an image link).
TitleSymbols ==
    <<"?", "!", " ", "|", " ", "G", "u", "i", "l", "d", "W", "a", "r", "s", "2", ".", "c", "o", "m">>
LinkNoText == [href |-> HrefAbsolute, text |-> <<>>]
LinksX == LinksW \cup {LinkNoText}

\* The sites of the extraction runs: any classes, any number of links.
RichLists == [class : ListClasses, links : SeqUpTo(LinksX, MaxLinksW)]
RichSites ==
    [media : SeqUpTo([src : {SrcA}, links : SeqUpTo(LinksX, 1)], 1),
     releases : SeqUpTo([href : {ReleaseHrefDated, ReleaseHrefUndated},
                         title : {TitleA, TitleSymbols},
                         lists : SeqUpTo(RichLists, MaxListsW)], 1)]

\* The sites of the download runs: one list of one link at most per page.
PlainLists == [class : {{"wallpaper"}}, links : SeqUpTo(LinksW, 1)]
PlainSites ==
    [media : SeqUpTo([src : {SrcA}, links : SeqUpTo(LinksW, 1)], 1),
     releases : SeqUpTo([href : {ReleaseHrefDated},
                         title : {TitleA, TitleB},
                         lists : SeqUpTo(PlainLists, 1)], MaxReleasesW)]

\* What urlopen(...).read() does on a page: return it or raise.
PageOutcomesW == {"ok", "raise"}

\* ---- GW2Walls.__init__ ----

\* self.get_media_walls(); a failure of urlopen is not caught
get_media_walls ==
    /\ gpc = "get_media_walls"
    /\ \E r \in PageOutcomesW :
          IF r = "ok"
          THEN /\ walls' = walls \o MediaWalls(siteW.media)
               /\ gpc' = "get_release_walls"
          ELSE /\ gpc' = "raised_fetch"
               /\ walls' = walls
    /\ UNCHANGED <<siteW, rnext, emitted, args, result, idx, io, dirs, files,
                   log, notW>>

\* get_release_walls: urlopen(self.releases_url); a failure is not caught
get_release_walls ==
    /\ gpc = "get_release_walls"
    /\ \E r \in PageOutcomesW :
          IF r = "ok"
          THEN /\ gpc' = "releases"
               /\ rnext' = 1
          ELSE /\ gpc' = "raised_fetch"
               /\ rnext' = rnext
    /\ UNCHANGED <<siteW, walls, emitted, args, result, idx, io, dirs, files,
                   log, notW>>

\* self.get_specified_release_wall(release_url) for the next release of the
\* index; a failure of urlopen is not caught
get_specified_release_wall ==
    /\ gpc = "releases"
    /\ rnext <= Len(siteW.releases)
    /\ \E r \in PageOutcomesW :
          IF r = "ok"
          THEN LET e == siteW.releases[rnext]
                   recs == ReleaseWalls(ReleaseUrl(e.href), e)
               IN  /\ walls' = walls \o recs
                   /\ emitted' = recs
                   /\ rnext' = rnext + 1
                   /\ gpc' = gpc
          ELSE /\ gpc' = "raised_fetch"
               /\ UNCHANGED <<walls, emitted, rnext>>
    /\ UNCHANGED <<siteW, args, result, idx, io, dirs, files, log, notW>>

NoWalls_OffByOne(w) == Len(w) <= 1

\* if len(self.walls) == 0
NoWalls(w) == Len(w) = 0

\* The end of __init__: raise ValueError('No walls found.') or return
check_walls ==
    /\ gpc = "releases"
    /\ rnext > Len(siteW.releases)
    /\ gpc' = IF NoWalls(walls) THEN "raised_no_walls" ELSE "constructed"
    /\ UNCHANGED <<siteW, walls, rnext, emitted, args, result, idx, io, dirs,
                   files, log, notW>>

\* ---- collect_download_urls ----

dimensions_Any(w) == {Res1, Res2}

\* The properties dimensions, names and types
dimensions_of(w) == {w[i].dim : i \in DOMAIN w}
names_of(w) == {w[i].name : i \in DOMAIN w}
types_of(w) == {w[i].type : i \in DOMAIN w}

\* The truth value of an optional argument: '' (the default of the command
\* line) and None are false.
Given(x) == x # <<>>

Matches_TypeIgnored(item, dim, name, wall_type) ==
    IF Given(name) THEN item.name = name /\ item.dim = dim
    ELSE IF Given(wall_type) THEN item.type = wall_type /\ item.dim = dim
    ELSE item.dim = dim

\* The test of one item in the loop of collect_download_urls
Matches(item, dim, name, wall_type) ==
    IF Given(name) /\ Given(wall_type)
    THEN item.name = name /\ item.type = wall_type /\ item.dim = dim
    ELSE IF Given(name) /\ ~Given(wall_type)
    THEN item.name = name /\ item.dim = dim
    ELSE IF Given(wall_type) /\ ~Given(name)
    THEN item.type = wall_type /\ item.dim = dim
    ELSE item.dim = dim

\* for item in self.walls: ... wall_list.append(item)
RECURSIVE WallList(_, _, _, _)
WallList(w, dim, name, wall_type) ==
    IF w = <<>> THEN <<>>
    ELSE (IF Matches(Head(w), dim, name, wall_type) THEN <<Head(w)>>
          ELSE <<>>)
         \o WallList(Tail(w), dim, name, wall_type)

collect_Unvalidated(w, dim, name, wall_type) ==
    [ok |-> TRUE, wall_list |-> WallList(w, dim, name, wall_type)]

\* A raised ValueError: the field it names, the value given and the choices
\* its message lists.
ValueError(field, given, choices) ==
    [ok |-> FALSE, field |-> field, given |-> given, choices |-> choices]

collect_download_urls(w, dim, name, wall_type) ==
    IF dim \notin dimensions_of(w)
    THEN ValueError("dimension", dim, dimensions_of(w))
    ELSE IF Given(name) /\ name \notin names_of(w)
    THEN ValueError("release name", name, names_of(w))
    ELSE IF Given(wall_type) /\ wall_type \notin types_of(w)
    THEN ValueError("type", wall_type, types_of(w))
    ELSE [ok |-> TRUE, wall_list |-> WallList(w, dim, name, wall_type)]

\* ---- download_walls ----

NameA == <<"A">>
NameB == <<"B">>

\* The arguments of download_walls, save_path apart.
Args ==
    [dim : {Res1, Res2}, name : {<<>>, NameA, NameB},
     wall_type : {<<>>, TypeMedia, TypeRelease},
     use_info : BOOLEAN, use_folders : BOOLEAN]

DigitOf(n) ==
    CASE n = 0 -> "0" [] n = 1 -> "1" [] n = 2 -> "2" [] n = 3 -> "3"
      [] n = 4 -> "4" [] n = 5 -> "5" [] n = 6 -> "6" [] n = 7 -> "7"
      [] n = 8 -> "8" [] n = 9 -> "9"

\* str(n)
RECURSIVE Decimal(_)
Decimal(n) ==
    IF n < 10 THEN <<DigitOf(n)>>
    ELSE Decimal(n \div 10) \o <<DigitOf(n % 10)>>

NumText(num) == IF num = NoNum THEN <<>> ELSE Decimal(num[1])

\* '{date} {name} {num} {dim}.jpg'.format(**item).strip()
InfoName(item) ==
    Strip(item.date \o SP \o item.name \o SP \o NumText(item.num) \o SP
          \o item.dim \o DOT_JPG)

\* save_file of download_walls
SaveFile(item, use_info, use_folders) ==
    IF use_info
    THEN IF use_folders
         THEN PathJoin(PathJoin(save_path, item.type), InfoName(item))
         ELSE PathJoin(save_path, InfoName(item))
    ELSE PathJoin(save_path, Basename(item.url))

\* What mkdir and open do when the file system lets them: succeed, or raise
\* an OSError.  What urlopen(url).read() does: return the bytes, raise an
\* OSError (URLError, a timeout), or raise another exception
\* (http.client.HTTPException, IncompleteRead).
FsOutcomes == {"ok", "oserror"}
ReadOutcomes == {"ok", "oserror", "other"}

\* urlopen raises URLError('no host given') on a url without a host.
HasHost(url) == StartsWith(url, HTTPS_COLON \o <<"/", "/">>)

\* mkdir makes one level: the parent must exist.
ParentExists(d) == LastSlash(d) <= 1 \/ Dirname(d) \in dirs

\* app.download_walls(...): collect_download_urls first, then the loop
download_walls ==
    /\ gpc = "constructed"
    /\ \E a \in Args :
          LET r == collect_download_urls(walls, a.dim, a.name, a.wall_type)
          IN  /\ args' = a
              /\ result' = r
              /\ gpc' = IF r.ok THEN "downloading" ELSE "raised_validation"
              /\ idx' = IF r.ok THEN 1 ELSE idx
    /\ UNCHANGED <<siteW, walls, rnext, emitted, io, dirs, files, log, notW>>

\* One turn of the loop of download_walls: the directory, then the file.
download_item ==
    /\ gpc = "downloading"
    /\ idx <= Len(result.wall_list)
    /\ \E mk \in FsOutcomes, op \in FsOutcomes, rd \in ReadOutcomes :
          LET item == result.wall_list[idx]
              save_file == SaveFile(item, args.use_info, args.use_folders)
              d == Dirname(save_file)
              missing == d \notin dirs
              made == missing /\ ParentExists(d) /\ mk = "ok"
              opened == (~missing \/ made) /\ op = "ok"
              got == IF HasHost(item.url) THEN rd ELSE "oserror"
          IN  /\ dirs' = IF made THEN dirs \cup {d} ELSE dirs
              /\ io' = io
                       \cup (IF missing THEN {<<"mkdir", d>>} ELSE {})
                       \cup {<<"open", save_file>>}
                       \cup (IF opened THEN {<<"urlopen", item.url>>}
                             ELSE {})
              /\ files' = IF ~opened THEN files
                          ELSE IF got = "ok"
                          THEN WriteFile(files, save_file, item.url)
                          ELSE WriteFile(files, save_file, <<>>)
              /\ log' = log
                        \cup (IF missing /\ ~made
                              THEN {<<"oserror", "mkdir", d>>} ELSE {})
                        \cup (IF ~opened
                              THEN {<<"oserror", "open", save_file>>}
                              ELSE IF got = "oserror"
                              THEN {<<"oserror", "urlopen", item.url>>}
                              ELSE {})
              /\ IF opened /\ got = "other"
                 THEN gpc' = "raised_download" /\ idx' = idx
                 ELSE gpc' = gpc /\ idx' = idx + 1
    /\ UNCHANGED <<siteW, walls, rnext, emitted, args, result, notW>>

\* The loop of download_walls ends.
download_return ==
    /\ gpc = "downloading"
    /\ idx > Len(result.wall_list)
    /\ gpc' = "returned"
    /\ UNCHANGED <<siteW, walls, rnext, emitted, args, result, idx, io, dirs,
                   files, log, notW>>

InitW ==
    /\ Idle2
    /\ IdleT
    /\ siteW \in PlainSites
    /\ gpc = "get_media_walls"
    /\ walls = <<>>
    /\ rnext = 0
    /\ emitted = <<>>
    /\ args = <<>>
    /\ result = <<>>
    /\ idx = 0
    /\ io = {}
    /\ dirs \in {{}, {save_path}}
    /\ files = <<>>
    /\ log = {}

NextW ==
    \/ get_media_walls
    \/ get_release_walls
    \/ get_specified_release_wall
    \/ check_walls
    \/ download_walls
    \/ download_item
    \/ download_return

\* GW2Walls(...) and then download_walls(...), as __main__ runs them.
SpecW == InitW /\ [][NextW]_vars

\* The sites of the runs with shared destinations: a media record and a
\* release record of one resolution, whose urls end in the same name or not.
HrefOtherHost == <<"h", "t", "t", "p", "s", ":", "/", "/", "d", "/", "a">>
HrefsDup == {HrefAbsolute, HrefOtherHost, HrefProtocolRelative}
DupSites ==
    {[media |-> <<[src |-> SrcA, links |-> <<[href |-> h1, text |-> Res1]>>]>>,
      releases |-> <<[href |-> ReleaseHrefDated, title |-> TitleA,
                      lists |-> <<[class |-> {"wallpaper"},
                                   links |-> <<[href |-> h2,
                                                text |-> Res1]>>]>>]>>] :
       h1 \in HrefsDup, h2 \in HrefsDup}

InitDup ==
    /\ Idle2
    /\ IdleT
    /\ siteW \in DupSites
    /\ gpc = "get_media_walls"
    /\ walls = <<>>
    /\ rnext = 0
    /\ emitted = <<>>
    /\ args = <<>>
    /\ result = <<>>
    /\ idx = 0
    /\ io = {}
    /\ dirs \in {{}, {save_path}}
    /\ files = <<>>
    /\ log = {}

\* GW2Walls(...) and download_walls(...) on the sites with shared
\* destinations.
SpecDup == InitDup /\ [][NextW]_vars

InitX ==
    /\ Idle2
    /\ IdleT
    /\ siteW \in RichSites
    /\ gpc = "get_media_walls"
    /\ walls = <<>>
    /\ rnext = 0
    /\ emitted = <<>>
    /\ args = <<>>
    /\ result = <<>>
    /\ idx = 0
    /\ io = {}
    /\ dirs = {}
    /\ files = <<>>
    /\ log = {}

NextX ==
    \/ get_media_walls
    \/ get_release_walls
    \/ get_specified_release_wall
    \/ check_walls

\* GW2Walls(...): the extraction of the catalog.
SpecX == InitX /\ [][NextX]_vars

\* The release hrefs of the date runs: a month, a day or none, a year, with
\* or without the '/' at the end.
MonthsD == {<<"a", "u", "g", "u", "s", "t">>, <<"m", "a", "y">>, <<"a", "u", "g">>}
DaysD == {<<>>, <<"1">>, <<"1", "2">>, <<"3", "2">>, <<"x">>}
YearsD == {<<"2", "0", "1", "4">>, <<"1", "4">>}
SlugPartsD == [month : MonthsD, day : DaysD, year : YearsD, slash : BOOLEAN]

SlugOf(c) ==
    c.month \o <<"-">>
    \o (IF c.day = <<>> THEN <<>> ELSE c.day \o <<"-">>) \o c.year

HrefOf(c) ==
    <<"/", "r", "/">> \o SlugOf(c) \o (IF c.slash THEN <<"/">> ELSE <<>>)

DateSites ==
    [media : {<<>>},
     releases : {<<[href |-> HrefOf(c), title |-> TitleA,
                    lists |-> <<[class |-> {"wallpaper"},
                                 links |-> <<[href |-> HrefAbsolute,
                                              text |-> Res1]>>]>>]>> :
                 c \in SlugPartsD}]

InitD ==
    /\ Idle2
    /\ IdleT
    /\ siteW \in DateSites
    /\ gpc = "get_media_walls"
    /\ walls = <<>>
    /\ rnext = 0
    /\ emitted = <<>>
    /\ args = <<>>
    /\ result = <<>>
    /\ idx = 0
    /\ io = {}
    /\ dirs = {}
    /\ files = <<>>
    /\ log = {}

\* GW2Walls(...) on the sites of the date runs.
SpecD == InitD /\ [][NextX]_vars

-----------------------------------------------------------------------------
(* Properties of GW2Walls2.py                                              *)

\* The items taken from the queue and not yet marked task_done.
InFlight == {witem[w] : w \in Workers} \ {<<>>}

\* C1: once 'Done.' is logged (queue.join() has returned), no item is
\* waiting on the queue or being fetched: every item a crawler thread puts
\* has ended as saved or failed before completion is signaled, and none is
\* put afterwards.
C1_DoneOnlyWhenAllResolved ==
    mpc = "done" =>
        /\ queue = <<>>
        /\ \A k \in Items : status[k] \notin {"queued", "fetching"}

\* C2: an item taken from the queue stays in the hands of a running worker:
\* whatever makes its fetch or its write fail, the failure is caught, the
\* item ends as failed and the worker goes on to the next item, so that the
\* other items are still fetched.
C2_FailureIsolated ==
    \A k \in Items :
        status[k] = "fetching" =>
            \E w \in Workers : witem[w] = k /\ wpc[w] # "dead"

\* C3: at most values.threads items are in flight (taken from the queue and
\* not yet marked task_done) at any moment.
C3_AtMostThreadsInFlight ==
    /\ Cardinality(InFlight) <= threads
    /\ unfinished_tasks - Len(queue) <= threads

\* C3 witness: as many items in flight as there are workers, two or more,
\* while another item waits on the queue.
C3_Witness ==
    /\ threads >= 2
    /\ Cardinality(InFlight) = threads
    /\ queue # <<>>

-----------------------------------------------------------------------------
(* Properties of GW2Walls-Threads.py and GW2Walls-Async.py                 *)

\* The downloads running: started and not finished.
Running == {i \in DOMAIN tasks : Alive(tasks[i])}

\* C4: the number of downloads running at the same time never exceeds the
\* worker count, whatever the number of matching links.
C4_DownloadsCapped == Cardinality(Running) <= ClaimedWorkerCount

-----------------------------------------------------------------------------
(* Properties of GW2Walls.py                                               *)

\* download_walls has been called: collect_download_urls has run.
Called == gpc \in {"raised_validation", "downloading", "returned",
                   "raised_download"}

CatalogDims == {walls[i].dim : i \in DOMAIN walls}
CatalogNames == {walls[i].name : i \in DOMAIN walls}
CatalogTypes == {walls[i].type : i \in DOMAIN walls}

DimAbsent == args.dim \notin CatalogDims
NameAbsent == args.name # <<>> /\ args.name \notin CatalogNames
TypeAbsent == args.wall_type # <<>> /\ args.wall_type \notin CatalogTypes

\* C5: collect_download_urls raises a ValueError whose message lists the
\* valid choices whenever the requested resolution is in no catalog record,
\* and whenever a given name or a given wall_type is in no catalog record;
\* it returns no list then.
C5_AbsentFilterRaises ==
    Called =>
      /\ (DimAbsent \/ NameAbsent \/ TypeAbsent) => ~result.ok
      /\ DimAbsent =>
            ~result.ok /\ result.choices = CatalogDims
      /\ (~DimAbsent /\ NameAbsent) =>
            ~result.ok /\ result.choices = CatalogNames
      /\ (~DimAbsent /\ ~NameAbsent /\ TypeAbsent) =>
            ~result.ok /\ result.choices = CatalogTypes

\* A call with a resolution no record of a non-empty catalog has.
C5_Witness ==
    /\ gpc = "raised_validation"
    /\ DimAbsent
    /\ CatalogDims # {}
    /\ result.choices = CatalogDims

\* The filter predicate: the resolution, the name when one is given, the
\* category when one is given.
Wanted(r) ==
    /\ r.dim = args.dim
    /\ args.name # <<>> => r.name = args.name
    /\ args.wall_type # <<>> => r.type = args.wall_type

\* C6: when collect_download_urls returns, its result is the subsequence of
\* the catalog of the records with the resolution dim, the name when one is
\* given and the wall_type when one is given, in catalog order.
C6_ResultIsMatchingSubsequence ==
    (Called /\ result.ok) => result.wall_list = SelectSeq(walls, Wanted)

\* A call with a name and a type that keeps one of two records of the
\* resolution and the name.
C6_Witness ==
    /\ Called
    /\ result.ok
    /\ args.name # <<>>
    /\ args.wall_type # <<>>
    /\ Len(result.wall_list) = 1
    /\ Len(SelectSeq(walls, LAMBDA r : r.dim = args.dim
                                        /\ r.name = args.name)) = 2

\* C7: when the filter of download_walls is invalid, the call raises before
\* any image url is opened, any directory made and any file opened for
\* writing; and download_walls is never reached with an empty catalog.
C7_InvalidFilterFailsFast ==
    /\ (Called /\ (DimAbsent \/ NameAbsent \/ TypeAbsent)) =>
          /\ gpc = "raised_validation"
          /\ io = {}
          /\ files = <<>>
    /\ Called => walls # <<>>

\* A call with a name no record has, on a catalog that has the resolution.
C7_Witness ==
    /\ gpc = "raised_validation"
    /\ ~DimAbsent
    /\ NameAbsent
    /\ io = {}

\* __init__ is past the check of the catalog.
Checked == gpc \in {"raised_no_walls", "constructed", "raised_validation",
                    "downloading", "returned", "raised_download"}

\* C8: the constructor raises 'No walls found.' exactly when the media and
\* the release extraction together produced no record; the check runs after
\* both extractions and before any filter operation.
C8_EmptyCatalogRaises ==
    /\ Checked => (gpc = "raised_no_walls" <=> walls = <<>>)
    /\ gpc = "raised_no_walls" =>
          /\ rnext > Len(siteW.releases)
          /\ args = <<>>
          /\ result = <<>>
    /\ Called => rnext > Len(siteW.releases)

\* The constructor raised on a site with a release page but no size link.
C8_Witness ==
    /\ gpc = "raised_no_walls"
    /\ Len(siteW.releases) >= 1
    /\ walls = <<>>


\* The absolute form of an href: an absolute one as it is, a
\* protocol-relative one behind 'https:', a site-relative one behind the
\* origin of the site.
AbsoluteForm(h) ==
    IF StartsWith(h, <<"/", "/">>) THEN HTTPS_COLON \o h
    ELSE IF StartsWith(h, <<"/">>) THEN MAIN_SITE_URL \o h
    ELSE h

\* C9: the url of every record get_media_walls and
\* get_specified_release_wall produce, and every url cleanup_url returns, is
\* absolute and HTTPS: 'https://' at its head, and the absolute form of the
\* href it came from.
C9_UrlsAbsoluteHttps ==
    /\ \A h \in Hrefs :
          /\ cleanup_url(h) = AbsoluteForm(h)
          /\ StartsWith(cleanup_url(h), HTTPS_COLON \o <<"/", "/">>)
    /\ \A i \in DOMAIN walls :
          /\ StartsWith(walls[i].url, HTTPS_COLON \o <<"/", "/">>)
          /\ walls[i].url \in {AbsoluteForm(h) : h \in Hrefs}

\* The release page get_specified_release_wall processed last, and the
\* lists of class wallpaper or resolutions on it.
Processed == gpc \in {"releases", "raised_no_walls", "constructed"} /\ rnext >= 2
LastPage == siteW.releases[rnext - 1]
WallpaperLists ==
    {j \in DOMAIN LastPage.lists :
        LastPage.lists[j].class \cap {"wallpaper", "resolutions"} # {}}

\* C10: the num values of the records emitted for a release page are
\* exactly 1..k, k the number of lists of class wallpaper or resolutions on
\* the page.
C10_NumsContiguous ==
    Processed =>
      {emitted[i].num[1] : i \in DOMAIN emitted}
         = 1..Cardinality(WallpaperLists)

\* get_specified_release_wall raised on a release page: the exception leaves
\* get_release_walls and __init__, the pages after it are not visited.
ExtractionAborted == gpc = "raised_fetch" /\ rnext \in 1..Len(siteW.releases)

\* C11: a fetch failure on one release page does not abort the extraction
\* of the catalog.
C11_ReleaseFailureDoesNotAbort == ~ExtractionAborted

-----------------------------------------------------------------------------
(* Properties of the crawlers and workers of GW2Walls2.py                  *)

\* The items of the page of crawler c: its links whose text is the
\* resolution.
ItemsOfCrawler(c) == {k \in Items : k[1] = c}

-----------------------------------------------------------------------------
(* Properties of GW2Walls-Threads.py and GW2Walls-Async.py                 *)

\* The downloads started (a thread started, a task created) and the ones
\* that wrote their file.
Started == DOMAIN tasks
Written == {i \in DOMAIN tasks : tasks[i].pc = "done"}

\* C13: when the fetch of a top-level page fails and get_wall_urls raises,
\* no image download has been started and no image file has been written.
C13_FailureWithNothingInFlight ==
    tpc = "raised" => Started = {} /\ Written = {}

-----------------------------------------------------------------------------
(* Properties of download_image                                            *)

\* Worker w opens its destination for writing in this step.
OpensForWriting(w) ==
    /\ w \in Workers
    /\ wpc[w] = "open"
    /\ wpc'[w] = "write"

\* C14: whenever download_image opens for writing a destination that exists
\* already, the overwrite warning of that item has been logged before.
C14_OverwriteWarned ==
    [][\A w \in Workers :
          (OpensForWriting(w) /\ ItemOf(witem[w]).path \in DOMAIN files)
             => <<"overwriting", witem[w]>> \in log]_vars

\* The moves of an item: put on the queue, taken by a worker, then saved or
\* failed.
Lifecycle ==
    { <<"none", "queued">>, <<"queued", "fetching">>,
      <<"fetching", "saved">>, <<"fetching", "failed">> }

\* The workers that hold item k.
Holders(k) == {w \in Workers : witem[w] = k}

\* The places of item k in the queue.
Queued(k) == {i \in DOMAIN queue : queue[i] = k}

\* C15: an item moves only from queued to fetching to saved or failed; it is
\* taken from the queue by exactly one worker, fetched at most once, and a
\* saved or failed item never moves again nor returns to the queue.
C15_ItemLifecycle ==
    /\ [](\A k \in Items :
             /\ Cardinality(Holders(k)) <= 1
             /\ Cardinality(Queued(k)) = IF status[k] = "queued" THEN 1 ELSE 0
             /\ status[k] = "none" => Holders(k) = {})
    /\ [][\A k \in Items :
             /\ status'[k] # status[k] =>
                   <<status[k], status'[k]>> \in Lifecycle
             /\ (status[k] = "queued" /\ status'[k] = "fetching") =>
                   Cardinality({w \in DOMAIN wpc' : witem'[w] = k}) = 1]_vars

\* The run is done with one item saved and another failed.
C15_Witness ==
    /\ mpc = "done"
    /\ \E k1, k2 \in Items : status[k1] = "saved" /\ status[k2] = "failed"

-----------------------------------------------------------------------------
(* Properties of GW2Walls.download_walls                                   *)

\* The fields of a record that are not empty, joined by single spaces.
RECURSIVE JoinNonEmpty(_)
JoinNonEmpty(fields) ==
    IF fields = <<>> THEN <<>>
    ELSE LET rest == JoinNonEmpty(Tail(fields))
         IN  IF Head(fields) = <<>> THEN rest
             ELSE IF rest = <<>> THEN Head(fields)
             ELSE Head(fields) \o SP \o rest

DoubleSpace(s) == \E i \in 1..(Len(s) - 1) : s[i] = " " /\ s[i + 1] = " "

\* The paths download_walls has opened for writing.
OpenedPaths == {e[2] : e \in {x \in io : x[1] = "open"}}

\* C16: with use_info, the file name of every record is its non-empty
\* fields among date, name, num and dim joined by single spaces, then
\* '.jpg': no two consecutive spaces, no space at either end.
C16_InfoNameSingleSpaced ==
    (Called /\ result.ok /\ args.use_info) =>
       /\ \A p \in OpenedPaths :
             /\ ~DoubleSpace(Basename(p))
             /\ Basename(p) = Strip(Basename(p))
       /\ \A i \in 1..Len(result.wall_list) :
             LET item == result.wall_list[i]
             IN  InfoName(item) =
                    JoinNonEmpty(<<item.date, item.name, NumText(item.num),
                                   item.dim>>) \o DOT_JPG

\* C17: in the loop of download_walls a fetch or write failure of one
\* record, of any kind, is caught and reported and the loop goes on: the
\* call never ends by an exception of a download, and when it returns every
\* selected record has had its file opened.
C17_DownloadFailuresCaught ==
    /\ gpc # "raised_download"
    /\ gpc = "returned" =>
          \A i \in 1..Len(result.wall_list) :
             SaveFile(result.wall_list[i], args.use_info, args.use_folders)
                \in OpenedPaths

-----------------------------------------------------------------------------
(* Properties of the release date                                          *)

\* The date the parts of a slug stand for: a known month, a day of one or
\* two digits (or none: the first) and a year of four digits, behind a '/'
\* at the end of the href; the empty date otherwise.
MonthDigits(m) ==
    IF m = <<"a", "u", "g", "u", "s", "t">> THEN <<"0", "8">>
    ELSE IF m = <<"m", "a", "y">> THEN <<"0", "5">>
    ELSE <<>>
DayDigits(d) ==
    IF d = <<>> THEN <<"0", "1">>
    ELSE IF d = <<"1">> THEN <<"0", "1">>
    ELSE IF d = <<"1", "2">> THEN <<"1", "2">>
    ELSE <<>>
DateOfParts(c) ==
    IF c.slash /\ MonthDigits(c.month) # <<>> /\ DayDigits(c.day) # <<>>
       /\ c.year = <<"2", "0", "1", "4">>
    THEN c.year \o <<"-">> \o MonthDigits(c.month) \o <<"-">>
         \o DayDigits(c.day)
    ELSE <<>>

\* C18: the release date comes from the second-to-last segment of the
\* release url: 'august-12-2014' gives 2014-08-12, 'august-2014' a date in
\* August 2014, a slug of neither pattern the empty date, and the extraction
\* of that release goes on with it.
C18_ReleaseDateParsed ==
    /\ get_release_date(ReleaseUrl(ReleaseHrefDated)) = <<"2", "0", "1", "4", "-", "0", "8", "-", "1", "2">>
    /\ get_release_date_from_url(ReleaseUrl(ReleaseHrefDated)) = <<"2", "0", "1", "4", "-", "0", "8", "-", "1", "2">>
    /\ Processed =>
          /\ emitted # <<>>
          /\ \A c \in SlugPartsD :
                LastPage.href = HrefOf(c) =>
                   /\ \A i \in DOMAIN emitted :
                         emitted[i].date = DateOfParts(c)
                   /\ get_release_date_from_url(ReleaseUrl(LastPage.href))
                         = DateOfParts(c)

\* A release page whose slug is neither pattern was processed and its
\* record was emitted with the empty date.
C18_Witness ==
    /\ Processed
    /\ LastPage.href = HrefOf([month |-> <<"a", "u", "g", "u", "s", "t">>, day |-> <<"3", "2">>,
                               year |-> <<"2", "0", "1", "4">>, slash |-> TRUE])
    /\ Len(emitted) = 1
    /\ emitted[1].date = <<>>

-----------------------------------------------------------------------------
(* Properties of the directories of download_image                         *)

\* The directory of the destination of item k.
DirOf(k) == Dirname(ItemOf(k).path)

\* Worker w is past the directory step of its item.
PastDirectoryStep(w) == wpc[w] \in {"urlopen", "open", "write"}

\* C19: two workers whose items share a missing parent directory both get
\* past its creation: the directory exists for both, the 'already exists'
\* outcome of makedirs fails no item, and both items go on to be fetched
\* and written.
C19_SharedDirectoryCreated ==
    /\ [](/\ \A w \in Workers : PastDirectoryStep(w) => DirOf(witem[w]) \in dirs
          /\ \A k \in Items :
                <<"failed_to_create", k>> \in log =>
                   /\ DirOf(k) \in dirs
                   /\ status[k] = "failed" => <<"error_saving", k>> \in log)
    /\ [][\A w \in Workers :
             (wpc[w] = "makedirs" /\ wpc'[w] # "makedirs") =>
                /\ wpc'[w] = "urlopen"
                /\ status'[witem[w]] = "fetching"]_vars

\* Two items of one directory are saved, and makedirs of the second found
\* the directory made by the worker of the first.
C19_Witness ==
    \E k1, k2 \in Items :
       /\ k1 # k2
       /\ DirOf(k1) = DirOf(k2)
       /\ status[k1] = "saved"
       /\ status[k2] = "saved"
       /\ <<"failed_to_create", k2>> \in log
       /\ <<"failed_to_create", k1>> \notin log

-----------------------------------------------------------------------------
(* Properties of the directories of GW2Walls.download_walls                *)

\* C20: with use_info and use_folders, the parent directory of every path
\* download_walls opens exists when the file is opened, also when the
\* destination root did not exist at the start (a directory is missing only
\* if mkdir was refused under an existing root).
C20_TypeFolderExists ==
    (Called /\ result.ok /\ args.use_info /\ args.use_folders) =>
       \A p \in OpenedPaths : Dirname(p) \in dirs \/ save_path \in dirs

-----------------------------------------------------------------------------
(* Properties of the puts of the crawler threads                           *)

\* The items of crawler c that are on the queue, in queue order.
QueuedBy(c) == SelectSeq(queue, LAMBDA k : k[1] = c)

\* s is the beginning of t.
IsPrefix(s, t) == Len(s) <= Len(t) /\ s = SubSeq(t, 1, Len(s))

\* The crawlers that were started.
StartedCrawlers == {c \in Crawlers : cpc[c] # "unstarted"}

\* C21: under concurrent puts no item is lost or duplicated, so the items a
\* crawler thread has put are, in every interleaving, the matching links of
\* its page (none when the page failed), and they are on the queue in the
\* order of the links of the page.
C21_PutsKeptAndOrdered ==
    /\ unfinished_tasks = Len(queue)
    /\ \A k \in Items : Cardinality(Queued(k)) <= 1
    /\ \A c \in StartedCrawlers :
          /\ IsPrefix(QueuedBy(c), MatchingFrom(c, LinksOf(c), 1))
          /\ (cpc[c] = "done" /\ <<"error_opening", c>> \notin log) =>
                QueuedBy(c) = MatchingFrom(c, LinksOf(c), 1)

\* Two crawlers with two matching links each are done, and their puts are
\* interleaved on the queue.
C21_Witness ==
    /\ cpc[1] = "done"
    /\ cpc[2] = "done"
    /\ Len(QueuedBy(1)) = 2
    /\ Len(QueuedBy(2)) = 2
    /\ Len(queue) >= 4
    /\ queue[1][1] = 2
    /\ queue[2][1] = 1
    /\ queue[3][1] = 2

-----------------------------------------------------------------------------
(* Properties of the records of the catalog                                *)

\* C22: every record of the catalog has a name and a resolution that are
\* not empty, whatever the page title and the size link it came from.
C22_NameAndResolutionNonEmpty ==
    \A i \in DOMAIN walls : walls[i].name # <<>> /\ walls[i].dim # <<>>

\* C23: on a non-empty catalog collect_download_urls either raises the
\* validation error or returns at least one record.
C23_NoSilentEmptyResult ==
    (Called /\ walls # <<>> /\ result.ok) => result.wall_list # <<>>

-----------------------------------------------------------------------------
(* Properties of the files download_walls writes                           *)

\* The destination of the i-th selected record.
DestOf(i) == SaveFile(result.wall_list[i], args.use_info, args.use_folders)

\* The selected records the loop has been through, and those of them that
\* resolve to path p.
Processed24 == 1..(idx - 1)
WritersOf(p) == {i \in Processed24 : DestOf(i) = p}

\* Every write to p so far succeeded: no OSError of open on p, none of
\* urlopen on the url of a record written to p.
AllWritesSucceeded(p) ==
    /\ <<"oserror", "open", p>> \notin log
    /\ \A i \in WritersOf(p) :
          <<"oserror", "urlopen", result.wall_list[i].url>> \notin log

Last(S) == CHOOSE i \in S : \A j \in S : j <= i

\* C24: when selected records resolve to one destination path and their
\* writes succeed, the file holds the content of the record that is last in
\* catalog order.
C24_LastWriteWins ==
    (gpc \in {"downloading", "returned"} /\ result.ok) =>
       \A p \in DOMAIN files :
          (WritersOf(p) # {} /\ AllWritesSucceeded(p)) =>
             files[p] = result.wall_list[Last(WritersOf(p))].url

\* Two records with different urls were written to one path, and the file
\* holds the second.
C24_Witness ==
    /\ gpc = "returned"
    /\ Len(result.wall_list) = 2
    /\ DestOf(1) = DestOf(2)
    /\ result.wall_list[1].url # result.wall_list[2].url
    /\ log = {}
    /\ DestOf(2) \in DOMAIN files
    /\ files[DestOf(2)] = result.wall_list[2].url

-----------------------------------------------------------------------------
(* Termination of GW2Walls2.py                                             *)

\* C25: the run always ends: queue.join() returns and 'Done.' is reached
\* (or the main thread ended by the exception of a page fetch), for every
\* worker count, every outcome of the fetches and writes and every
\* interleaving.
C25_RunTerminates == <>(mpc \in {"done", "aborted"})

-----------------------------------------------------------------------------
(* Properties of a failed download                                         *)

\* This step is a turn of the loop of download_walls on the record idx.
TurnOfLoop ==
    /\ gpc = "downloading"
    /\ idx <= Len(result.wall_list)
    /\ (idx' = idx + 1 \/ gpc' = "raised_download")

\* C26: when the download of a record fails, the file that was at its
\* destination before keeps its content.
C26_FailedDownloadKeepsFile ==
    [][(/\ TurnOfLoop
        /\ DestOf(idx) \in DOMAIN files
        /\ files'[DestOf(idx)] # result.wall_list[idx].url)
          => files'[DestOf(idx)] = files[DestOf(idx)]]_vars

-----------------------------------------------------------------------------
(* Properties of the wait of get_wall_urls                                 *)

\* C27: the wait of get_wall_urls on the task list returns without raising,
\* with no task as with one or more.
C27_WaitReturns ==
    [][(tpc = "wait" /\ tpc' # "wait") => tpc' = "done"]_vars

=============================================================================
